---- MODULE Spec2Model ----
(***************************************************************************)
(* The message-dispatch cycle of im64DMSender.                             *)
(*                                                                         *)
(* The repository has two entry points that share the same shape:          *)
(*   DM.py        TwitterDMScheduler  (template mode, rotation cursor)     *)
(*   dm_sender.py DMSender            (generative mode)                    *)
(* `program` says which of the two is running.  One dispatch cycle is one  *)
(* call of send_scheduled_messages / send_messages_to_all; it is split at  *)
(* the points where the code calls out (gateway call, sleep), and `pc`     *)
(* forces the pieces to follow each other as the code does.                *)
(***************************************************************************)
EXTENDS Integers, Sequences, FiniteSets, TLC

\* ------------------------------------------------------------------ bounds
MaxRecipients == 2      \* longest recipients / target_users list
MaxCycles == 2          \* dispatch cycles followed per run
MaxIndex == 2           \* largest value passed to update_message_index directly

\* ------------------------------------------------------- Python data values
None == "None"
Get(d, k, default) == IF k \in DOMAIN d THEN d[k] ELSE default
Truthy(s) == s # None /\ s # ""

\* A candidate is a dict {text, image} or, in the old format, a plain string.
Msg(t, img) == [text |-> t, image |-> img]
Str(s) == [str |-> s]
isinstance_str(m) == DOMAIN m = {"str"}

\* --------------------------------------------------------------- file system
\* Paths are tuples of components; os.path.join appends a component.
path_join(dir, name) == <<dir, name>>
standalone(name) == <<name>>
BytesPerMB == 1024 * 1024

\* Existing files and their sizes in bytes.
file_sizes ==
  ( path_join("images", "morning.jpg") :> 2048 ) @@
  ( path_join("images", "big.png") :> (5 * BytesPerMB) + 1 ) @@
  ( path_join("images", "edge.gif") :> 5 * BytesPerMB ) @@
  ( path_join("images", "README.txt") :> 512 ) @@
  ( standalone("abs.webp") :> 4096 ) @@
  ( standalone("morning.jpg") :> 1024 )
directories == {"images", "emptydir"}
os_path_exists(p) == p \in DOMAIN file_sizes
os_path_getsize(p) == file_sizes[p]

\* ------------------------------------------------- message_index.json (JSON)
\* A Python dict of cursors is a sequence of <<key, value>> pairs with
\* distinct keys, in insertion order.  A JSON document is a sequence of
\* members; json_load keeps the last member of a repeated key.
dict_has(d, k) == \E j \in 1..Len(d) : d[j][1] = k
dict_get(d, k, default) ==
  IF dict_has(d, k) THEN d[CHOOSE j \in 1..Len(d) : d[j][1] = k][2] ELSE default
dict_set(d, k, v) ==
  IF dict_has(d, k)
  THEN [j \in 1..Len(d) |-> IF d[j][1] = k THEN <<k, v>> ELSE d[j]]
  ELSE Append(d, <<k, v>>)
RECURSIVE json_load(_)
json_load(doc) ==
  IF doc = <<>> THEN <<>>
  ELSE LET n == Len(doc) IN dict_set(json_load(SubSeq(doc, 1, n - 1)), doc[n][1], doc[n][2])
json_dump(d) == d

NoFile == [exists |-> FALSE, doc |-> <<>>]
File(doc) == [exists |-> TRUE, doc |-> doc]

\* ------------------------------------------------ DM.py: pure helper methods
NoPath == <<>>                  \* get_image_path's None
MediaHandle == "media_id"       \* what a successful media_upload returns
GatewayResults == {"ok", "error"}

max_image_bytes(cfg) ==
  Get(Get(cfg, "media_settings", <<>>), "max_image_size_mb", 5) * BytesPerMB

\* TwitterDMScheduler.upload_media: does the code reach api.media_upload?
upload_media_calls_gateway(cfg, image_path) ==
  /\ os_path_exists(image_path)
  /\ ~(os_path_getsize(image_path) > max_image_bytes(cfg))

\* upload_media returning an error marker instead of None
upload_media_error_marker(cfg, image_path, gw) ==
  IF ~os_path_exists(image_path) THEN "missing"
  ELSE IF os_path_getsize(image_path) > max_image_bytes(cfg) THEN "too_large"
  ELSE IF gw = "ok" THEN MediaHandle
  ELSE "upload_failed"

\* upload_media refusing a file exactly at the ceiling
upload_media_ceiling_exclusive(cfg, image_path, gw) ==
  IF ~os_path_exists(image_path) THEN None
  ELSE IF os_path_getsize(image_path) >= max_image_bytes(cfg) THEN None
  ELSE IF gw = "ok" THEN MediaHandle
  ELSE None

\* TwitterDMScheduler.upload_media; gw is what api.media_upload does.
upload_media(cfg, image_path, gw) ==
  IF ~os_path_exists(image_path) THEN None
  ELSE IF os_path_getsize(image_path) > max_image_bytes(cfg) THEN None
  ELSE IF gw = "ok" THEN MediaHandle
  ELSE None

\* get_image_path trying the reference as a standalone path first
get_image_path_standalone_first(cfg, image_filename) ==
  IF ~Truthy(image_filename) THEN NoPath
  ELSE LET images_dir == Get(Get(cfg, "media_settings", <<>>), "images_directory", "images")
           image_path == path_join(images_dir, image_filename)
       IN IF os_path_exists(standalone(image_filename)) THEN standalone(image_filename)
          ELSE IF os_path_exists(image_path) THEN image_path
          ELSE NoPath

\* TwitterDMScheduler.get_image_path
get_image_path(cfg, image_filename) ==
  IF ~Truthy(image_filename) THEN NoPath
  ELSE LET images_dir == Get(Get(cfg, "media_settings", <<>>), "images_directory", "images")
           image_path == path_join(images_dir, image_filename)
       IN IF os_path_exists(image_path) THEN image_path
          ELSE IF os_path_exists(standalone(image_filename)) THEN standalone(image_filename)
          ELSE NoPath

\* send_scheduled_messages lines 363-367: is upload_media called for the message?
upload_attempted(cfg, md) ==
  /\ Truthy(Get(md, "image", None))
  /\ get_image_path(cfg, Get(md, "image", None)) # NoPath

DefaultMessages == << Msg("DEFAULT", None) >>

\* normalization that puts the wrapped plain strings after the structured ones
normalize_messages_strings_last(messages) ==
  SelectSeq(messages, LAMBDA m : ~isinstance_str(m)) \o
  [j \in 1..Len(SelectSeq(messages, isinstance_str)) |->
     Msg(SelectSeq(messages, isinstance_str)[j].str, None)]

\* lines 306-314
normalize_messages(messages) ==
  [j \in 1..Len(messages) |->
     IF isinstance_str(messages[j]) THEN Msg(messages[j].str, None) ELSE messages[j]]

\* the template list of the category taking precedence over custom_messages
message_source_category_first(cfg, rcpt) ==
  LET category == Get(rcpt, "message_category", "custom")
      message_templates == Get(cfg, "message_templates", <<>>)
  IN IF category \in DOMAIN message_templates THEN message_templates[category]
     ELSE IF Len(Get(rcpt, "custom_messages", <<>>)) > 0 THEN rcpt.custom_messages
     ELSE DefaultMessages

\* lines 297-304: the source list, before normalization
message_source(cfg, rcpt) ==
  IF Len(Get(rcpt, "custom_messages", <<>>)) > 0
  THEN rcpt.custom_messages
  ELSE LET category == Get(rcpt, "message_category", "custom")
           message_templates == Get(cfg, "message_templates", <<>>)
       IN Get(message_templates, category, DefaultMessages)

\* get_messages_for_recipient falling back to the default list on an empty source
get_messages_or_default(cfg, rcpt) ==
  IF Len(message_source(cfg, rcpt)) = 0 THEN DefaultMessages
  ELSE normalize_messages(message_source(cfg, rcpt))

get_messages_for_recipient(cfg, rcpt) == normalize_messages(message_source(cfg, rcpt))

\* update_message_index that sets every stored entry to the new index
update_message_index_all(file, user_id, index) ==
  LET indices == IF file.exists THEN json_load(file.doc) ELSE <<>>
      overwritten == [j \in 1..Len(indices) |-> << indices[j][1], index >>]
  IN File(json_dump(dict_set(overwritten, user_id, index)))

\* update_message_index that starts from an empty dict instead of the file
update_message_index_fresh(file, user_id, index) ==
  File(json_dump(dict_set(<< >>, user_id, index)))

\* get_message_index / update_message_index on the file message_index.json
get_message_index(file, user_id) ==
  IF file.exists THEN dict_get(json_load(file.doc), user_id, 0) ELSE 0

update_message_index(file, user_id, index) ==
  LET indices == IF file.exists THEN json_load(file.doc) ELSE <<>>
  IN File(json_dump(dict_set(indices, user_id, index)))

\* What create_direct_message can do: return data, return no data, or raise
\* Forbidden, TooManyRequests or another exception.
SendResults == {"ok", "empty", "forbidden", "ratelimit", "error"}
\* send_dm's return value (lines 245-259)
send_dm_result(r) == r = "ok"
\* send_dm with only the Forbidden handler: other exceptions escape
send_dm_raises_transport(r) == r \in {"ratelimit", "error"}
\* send_dm lets no exception out (lines 253-259)
send_dm_raises(r) == FALSE

\* the loop's guards (lines 326, 333, 340), and two guards that check less
recipient_enabled_ignored(r) == TRUE
recipient_enabled(r) == Get(r, "enabled", TRUE)
has_user_id_key(r) == "user_id" \in DOMAIN r
has_user_id(r) == Truthy(Get(r, "user_id", None))
not_messages(messages) == Len(messages) = 0

\* ------------------------------------------------------ DM.py: configurations
Templates ==
  [ greeting |-> << Msg("G1", "morning.jpg"), Msg("G2", "big.png") >>,
    reminder |-> << Msg("R1", None), Str("R2") >>,
    empty    |-> << >> ]

RecipientPool ==
  { [user_id |-> "u1", username |-> "n1", message_category |-> "greeting",
     custom_messages |-> << >>, enabled |-> TRUE],
    [user_id |-> "u2", username |-> "n2", message_category |-> "reminder",
     custom_messages |-> << Msg("C1", "gone.jpg"), Str("C2"), Msg("C3", "abs.webp") >>,
     enabled |-> TRUE],
    [user_id |-> "u4", username |-> "n4", message_category |-> "greeting",
     enabled |-> FALSE],
    [user_id |-> "", username |-> "n5", message_category |-> "greeting",
     enabled |-> TRUE],
    [username |-> "n6", message_category |-> "greeting"],
    [user_id |-> "u7", username |-> "n7", message_category |-> "empty",
     custom_messages |-> << >>],
    [user_id |-> "u8", username |-> "n8"] }

\* Recipient lists of 1..MaxRecipients distinct pool entries.  No two entries
\* of the pool share a non-empty user_id, so ids are unique within a list.
RECURSIVE Lists(_, _)
Lists(pool, n) ==
  IF n = 0 THEN { << >> }
  ELSE LET shorter == Lists(pool, n - 1)
       IN shorter \cup
          { Append(l, r) : l \in { x \in shorter : Len(x) = n - 1 }, r \in pool }
Distinct(l) == \A a, b \in 1..Len(l) : a # b => l[a] # l[b]
RecipientLists == { l \in Lists(RecipientPool, MaxRecipients) : Len(l) > 0 /\ Distinct(l) }

Credentials(api_key) ==
  [api_key |-> api_key, api_secret |-> "SECRET", access_token |-> "TOKEN",
   access_token_secret |-> "TOKEN_SECRET"]

SchedulerConfigs ==
  { [ api_credentials |-> Credentials("KEY"),
      schedule_settings |-> [interval_hours |-> 6, enable_timestamp |-> ts,
                             randomize_messages |-> rnd],
      media_settings |-> [images_directory |-> "images", max_image_size_mb |-> 5],
      message_templates |-> Templates,
      recipients |-> l ] :
    ts \in BOOLEAN, rnd \in BOOLEAN, l \in RecipientLists }

\* config.json files that do not get past the startup of DM.py: the template
\* key left in place, no recipients key, no interval, no credentials
OneRecipient == << [user_id |-> "u1", username |-> "n1", message_category |-> "greeting"] >>
UnusableSchedulerConfigs ==
  { [ api_credentials |-> Credentials("YOUR_API_KEY"),
      schedule_settings |-> [interval_hours |-> 6],
      message_templates |-> Templates, recipients |-> OneRecipient ],
    [ api_credentials |-> Credentials("KEY"),
      schedule_settings |-> [interval_hours |-> 6],
      message_templates |-> Templates ],
    [ api_credentials |-> Credentials("KEY"),
      schedule_settings |-> [enable_timestamp |-> FALSE],
      message_templates |-> Templates, recipients |-> OneRecipient ],
    [ schedule_settings |-> [interval_hours |-> 6],
      message_templates |-> Templates, recipients |-> OneRecipient ] }

InitialIndexFiles == { NoFile, File(<< <<"u9", 4>>, <<"u1", 1>> >>) }

\* --------------------------------------------------------------------- state
VARIABLES
  program,        \* "DM" (DM.py) or "dm_sender" (dm_sender.py) or "index" (the cursor store alone)
  config,         \* self.config, as loaded from config.json
  indexFile,      \* the file message_index.json
  pc,             \* where the process is
  pos,            \* position of the for loop in recipients / target_users
  cycle,          \* number of dispatch cycles started
  message_data,   \* the selected candidate (DM.py)
  full_message,   \* the text handed to the send call
  media_id,       \* the media handle handed to the send call, or None
  success_count,  \* dm_sender.py's counter
  trace,          \* what the running (or last) cycle did, in order
  cycleStartFile, \* message_index.json as it was when the cycle began
  allSent,        \* DM.py: the run began with no cursors and no send has failed
  lastSet,        \* the value last passed to update_message_index, per id
  startup,        \* how the construction of the scheduler object went
  exit,           \* how the process ended, Running while it has not
  tick_due,       \* the job registered with schedule is due
  limited,        \* a position whose send was rate-limited in the previous cycle, 0 if none
  call            \* the media helpers driven directly: the last call and what it gave

procVars == << startup, exit, tick_due, limited, call >>
vars == << program, config, indexFile, pc, pos, cycle, message_data, full_message,
           media_id, success_count, trace, cycleStartFile, allSent, lastSet, procVars >>

\* One entry of trace.  k is the position of the recipient it was done for.
Ev(ev, k, res) ==
  [ev |-> ev, k |-> k, res |-> res, media |-> FALSE, text |-> "", stamped |-> FALSE]
SendEv(k, res, msg, mid) ==
  [ev |-> "send", k |-> k, res |-> res, media |-> Truthy(mid),
   text |-> msg.text, stamped |-> msg.stamped]

NoMessage == Msg("", None)
NoText == [text |-> "", stamped |-> FALSE]
Unset == 0 - 1

\* call: the method, its argument, what api.media_upload did, whether it was
\* reached, and the value returned
Call(fn, arg, gw, reached, result) ==
  [fn |-> fn, arg |-> arg, gw |-> gw, reached |-> reached, result |-> result]
NoCall == Call("", << >>, "", FALSE, << >>)

\* exit: by is what ended the process, at is where it was, code its exit status
Running == [by |-> "", at |-> "", code |-> Unset]
Exited(by, at, code) == [by |-> by, at |-> at, code |-> code]

InitCommon ==
  /\ pc = "boot"
  /\ startup = "pending"
  /\ exit = Running
  /\ tick_due = FALSE
  /\ limited = 0
  /\ call = NoCall
  /\ pos = 0
  /\ cycle = 0
  /\ message_data = NoMessage
  /\ full_message = NoText
  /\ media_id = None
  /\ success_count = 0
  /\ trace = << >>

InitDM ==
  /\ program = "DM"
  /\ config \in SchedulerConfigs \cup UnusableSchedulerConfigs
  /\ indexFile \in InitialIndexFiles
  /\ cycleStartFile = indexFile
  /\ allSent = (indexFile = NoFile)
  /\ lastSet = << >>
  /\ InitCommon

\* ------------------------------------------------ DM.py: main, up to the start
\* What the environment does to the startup: config.json is there and parses
\* and the credentials are accepted, or one of these is not so.
StartupEnvs == {"ok", "no_file", "bad_json", "auth_error"}

\* ConfigManager.validate_config
validate_config(cfg) ==
  /\ "api_credentials" \in DOMAIN cfg
  /\ {"api_key", "api_secret", "access_token", "access_token_secret"}
       \subseteq DOMAIN cfg.api_credentials
  /\ "schedule_settings" \in DOMAIN cfg
  /\ "interval_hours" \in DOMAIN cfg.schedule_settings
  /\ "recipients" \in DOMAIN cfg
  /\ cfg.api_credentials.api_key # "YOUR_API_KEY"

\* creds = self.config['api_credentials'] and the four creds[...] of authenticate
credentials_readable(cfg) ==
  /\ "api_credentials" \in DOMAIN cfg
  /\ {"api_key", "api_secret", "access_token", "access_token_secret"}
       \subseteq DOMAIN cfg.api_credentials

\* TwitterDMScheduler.__init__ followed by main's validation: "ok", or the
\* first step that did not succeed
scheduler_startup(cfg, env) ==
  IF env = "no_file" THEN "no_config"
  ELSE IF env = "bad_json" THEN "bad_config"
  ELSE IF ~credentials_readable(cfg) \/ env = "auth_error" THEN "auth_failed"
  ELSE IF ~validate_config(cfg) THEN "invalid"
  ELSE "ok"

\* main's reaction: every startup failure leaves main before start_scheduler
startup_goes_on(res) == res = "ok"

\* lines 621-653, and the except clauses of lines 655-669
Main_Startup ==
  /\ program = "DM" /\ pc = "boot"
  /\ \E env \in StartupEnvs :
       LET res == scheduler_startup(config, env)
       IN /\ startup' = res
          /\ pc' = IF startup_goes_on(res) THEN "start" ELSE "exited"
          /\ exit' = IF startup_goes_on(res) THEN exit ELSE Exited("startup", "boot", 0)
  /\ UNCHANGED << program, config, indexFile, pos, cycle, message_data, full_message,
                  media_id, success_count, trace, cycleStartFile, allSent, lastSet,
                  tick_due, limited, call >>

\* --------------------------------------- DM.py: send_scheduled_messages
recipients == Get(config, "recipients", << >>)
settings == Get(config, "schedule_settings", << >>)
enable_timestamp == Get(settings, "enable_timestamp", TRUE)
randomize == Get(settings, "randomize_messages", FALSE)
InLoop == pc = "loop" /\ pos \in 1..Len(recipients)
recipient_from_end == recipients[Len(recipients) + 1 - pos]
recipient == recipients[pos]

\* start_scheduler calls the cycle itself once (DM.py line 432, dm_sender.py
\* line 356); afterwards only schedule.run_pending() of the poll loop calls it,
\* in the same thread, and only when the job is due: it was due already when
\* the loop was entered, or it falls due during a time.sleep(60) of the loop.
\* no first run: every cycle, the first included, waits for the job to be due
cycle_may_start_when_due_only(p, due) == p = "poll" /\ due
cycle_may_start_threaded(p, due) == p = "start" \/ due
cycle_may_start(p, due) == p = "start" \/ (p = "poll" /\ due)

\* lines 316-322, entered from start_scheduler (first run, then each due tick)
SSM_Start ==
  /\ program = "DM"
  /\ \E falls_due \in BOOLEAN : cycle_may_start(pc, tick_due \/ falls_due)
  /\ cycle < MaxCycles
  /\ tick_due' = FALSE
  /\ cycle' = cycle + 1
  /\ pos' = 1
  /\ trace' = << >>
  /\ cycleStartFile' = indexFile
  /\ pc' = "loop"
  /\ UNCHANGED << program, config, indexFile, message_data, full_message, media_id,
                  success_count, allSent, lastSet, startup, exit, limited, call >>

SkipThenSleep(reason) ==
  /\ trace' = trace \o << Ev("skip", pos, reason), Ev("sleep", pos, "2s") >>
  /\ pos' = pos + 1
  /\ UNCHANGED << procVars, program, config, indexFile, pc, cycle, message_data, full_message,
                  media_id, success_count, cycleStartFile, allSent, lastSet >>
Skip(reason) ==
  /\ trace' = Append(trace, Ev("skip", pos, reason))
  /\ pos' = pos + 1
  /\ UNCHANGED << procVars, program, config, indexFile, pc, cycle, message_data, full_message,
                  media_id, success_count, cycleStartFile, allSent, lastSet >>

\* lines 326-328
SSM_SkipDisabled ==
  /\ program = "DM" /\ InLoop
  /\ ~recipient_enabled(recipient)
  /\ Skip("disabled")

\* lines 330-335
SSM_SkipNoUserId ==
  /\ program = "DM" /\ InLoop
  /\ recipient_enabled(recipient)
  /\ ~has_user_id(recipient)
  /\ Skip("no_user_id")

\* lines 337-342
SSM_SkipNoMessages ==
  /\ program = "DM" /\ InLoop
  /\ recipient_enabled(recipient)
  /\ has_user_id(recipient)
  /\ not_messages(get_messages_for_recipient(config, recipient))
  /\ Skip("no_messages")

\* the outgoing text carrying the timestamp whatever the option says
make_full_message_always_stamped(md, ts) == [text |-> Get(md, "text", ""), stamped |-> TRUE]

\* lines 353-361
make_full_message(md, ts) == [text |-> Get(md, "text", ""), stamped |-> ts]

\* rotate_select with the cursor written back unadvanced
rotate_select_no_advance(file, user_id, messages, k) ==
  LET message_index == get_message_index(file, user_id)
  IN [ message_data |-> messages[(message_index % Len(messages)) + 1],
       file |-> update_message_index(file, user_id, message_index),
       events |-> << Ev("index_read", k, "get"), Ev("index_read", k, "update"),
                     Ev("index_write", k, "update") >> ]

\* rotate_select storing the cursor reduced modulo the number of candidates
rotate_select_wrapped(file, user_id, messages, k) ==
  LET message_index == get_message_index(file, user_id)
  IN [ message_data |-> messages[(message_index % Len(messages)) + 1],
       file |-> update_message_index(file, user_id, (message_index + 1) % Len(messages)),
       events |-> << Ev("index_read", k, "get"), Ev("index_read", k, "update"),
                     Ev("index_write", k, "update") >> ]

\* lines 344-351, rotation branch: the new file and the events of the accesses
rotate_select(file, user_id, messages, k) ==
  LET message_index == get_message_index(file, user_id)
  IN [ message_data |-> messages[(message_index % Len(messages)) + 1],
       file |-> update_message_index(file, user_id, message_index + 1),
       events |-> << Ev("index_read", k, "get"), Ev("index_read", k, "update"),
                     Ev("index_write", k, "update") >> ]

\* random_select that also counts the send in the cursor store
random_select_advancing(file, user_id, messages, k, j) ==
  [ message_data |-> messages[j],
    file |-> update_message_index(file, user_id, get_message_index(file, user_id) + 1),
    events |-> << >> ]

\* lines 344-346, random branch: random.choice picks position j
random_select(file, user_id, messages, k, j) ==
  [ message_data |-> messages[j], file |-> file, events |-> << >> ]

\* lines 337-361
SSM_Select ==
  /\ program = "DM" /\ InLoop
  /\ recipient_enabled(recipient)
  /\ has_user_id(recipient)
  /\ LET user_id == recipient.user_id
         messages == get_messages_for_recipient(config, recipient)
     IN /\ ~not_messages(messages)
        /\ \E j \in 1..Len(messages) :
             LET sel == IF randomize
                        THEN random_select(indexFile, user_id, messages, pos, j)
                        ELSE rotate_select(indexFile, user_id, messages, pos)
             IN /\ message_data' = sel.message_data
                /\ indexFile' = sel.file
                /\ trace' = trace \o sel.events
                /\ full_message' = make_full_message(sel.message_data, enable_timestamp)
  /\ pc' = "media"
  /\ UNCHANGED << procVars, program, config, pos, cycle, media_id, success_count,
                  cycleStartFile, allSent, lastSet >>

\* lines 363-368
SSM_Media ==
  /\ program = "DM" /\ pc = "media"
  /\ \E gw \in GatewayResults :
       LET image == Get(message_data, "image", None)
           image_path == get_image_path(config, image)
           attempt == upload_attempted(config, message_data)
       IN /\ media_id' = IF attempt THEN upload_media(config, image_path, gw) ELSE None
          /\ trace' = trace \o
               ( IF ~Truthy(image) THEN << >>
                 ELSE IF image_path = NoPath THEN << Ev("unresolved", pos, image) >>
                 ELSE IF ~upload_media_calls_gateway(config, image_path)
                      THEN << Ev("rejected", pos, image) >>
                 ELSE << Ev("upload", pos, gw) >> )
  /\ pc' = "send"
  /\ UNCHANGED << procVars, program, config, indexFile, pos, cycle, message_data, full_message,
                  success_count, cycleStartFile, allSent, lastSet >>

\* lines 370-376, with send_dm (lines 218-259)
SSM_Send ==
  /\ program = "DM" /\ pc = "send"
  /\ \E r \in SendResults :
       /\ trace' = IF send_dm_raises(r)
                   THEN Append(trace, SendEv(pos, r, full_message, media_id))
                   ELSE trace \o << SendEv(pos, r, full_message, media_id),
                                    Ev("outcome", pos, IF send_dm_result(r) THEN "success"
                                                       ELSE "failed") >>
       /\ allSent' = (allSent /\ send_dm_result(r))
       /\ pc' = IF send_dm_raises(r) THEN "crashed" ELSE "sleep"
  /\ UNCHANGED << procVars, program, config, indexFile, pos, cycle, message_data, full_message,
                  media_id, success_count, cycleStartFile, lastSet >>

\* line 379
SSM_Sleep ==
  /\ program = "DM" /\ pc = "sleep"
  /\ trace' = Append(trace, Ev("sleep", pos, "2s"))
  /\ pos' = pos + 1
  /\ message_data' = NoMessage
  /\ full_message' = NoText
  /\ media_id' = None
  /\ pc' = "loop"
  /\ UNCHANGED << procVars, program, config, indexFile, cycle, success_count, cycleStartFile,
                  allSent, lastSet >>

\* line 381, back in start_scheduler's poll loop (lines 440-443)
SSM_End ==
  /\ program = "DM" /\ pc = "loop"
  /\ pos > Len(recipients)
  /\ pc' = "poll"
  /\ UNCHANGED << procVars, program, config, indexFile, pos, cycle, message_data, full_message,
                  media_id, success_count, trace, cycleStartFile, allSent, lastSet >>

NextDM ==
  \/ Main_Startup
  \/ SSM_Start \/ SSM_SkipDisabled \/ SSM_SkipNoUserId \/ SSM_SkipNoMessages
  \/ SSM_Select \/ SSM_Media \/ SSM_Send \/ SSM_Sleep \/ SSM_End

\* ---------------------------------------------- dm_sender.py: helper methods
Path_suffix_lower(name) ==
  CASE name = "morning.jpg" -> ".jpg"
    [] name = "big.png" -> ".png"
    [] name = "edge.gif" -> ".gif"
    [] name = "abs.webp" -> ".webp"
    [] OTHER -> ".txt"
supported_formats == {".jpg", ".jpeg", ".png", ".gif", ".webp"}

\* DMSender.get_random_image: the paths random.choice may return
image_files(folder) ==
  { f \in DOMAIN file_sizes :
      Len(f) = 2 /\ f[1] = folder /\ Path_suffix_lower(f[2]) \in supported_formats }
get_random_image_choices(cfg) ==
  LET image_folder == Get(Get(cfg, "image_settings", <<>>), "folder_path", None)
  IN IF ~Truthy(image_folder) THEN { NoPath }
     ELSE IF image_folder \notin directories THEN { NoPath }
     ELSE IF image_files(image_folder) = {} THEN { NoPath }
     ELSE image_files(image_folder)

\* DMSender.upload_media (os.path.getsize raises on a missing file)
sender_upload_calls_gateway(image_path) ==
  /\ os_path_exists(image_path)
  /\ ~(os_path_getsize(image_path) > 5 * 1024 * 1024)
sender_upload_media(image_path, gw) ==
  IF ~os_path_exists(image_path) THEN None
  ELSE IF os_path_getsize(image_path) > 5 * 1024 * 1024 THEN None
  ELSE IF gw = "ok" THEN MediaHandle
  ELSE None

\* DMSender.generate_message.  gen is what generate_content does; the result
\* is the set of texts it may return, empty when random.choice raises.
GenResults == {"ok", "long", "error"}
BuiltinFallback == << "BUILTIN" >>
generate_message_fails(cfg, gen) ==
  \/ "message_prompts" \notin DOMAIN cfg
  \/ Len(cfg.message_prompts) = 0
  \/ gen = "error"
generate_message_texts(cfg, gen) ==
  IF ~generate_message_fails(cfg, gen)
  THEN { IF gen = "long" THEN "GEN[:9500]..." ELSE "GEN" }
  ELSE LET fallback_messages == Get(cfg, "fallback_messages", BuiltinFallback)
       IN { fallback_messages[j] : j \in 1..Len(fallback_messages) }

\* DMSender.send_dm_to_user's return value; response.data is not inspected
send_dm_to_user_result(r) == r \in {"ok", "empty"}
\* send_dm_to_user lets no exception out (lines 285-294)
send_dm_to_user_raises(r) == FALSE
\* lines 285-288: time.sleep(900) inside the handler of tweepy.TooManyRequests
send_dm_to_user_no_cooldown(r) == FALSE
send_dm_to_user_cooldown_on_failure(r) == r \in {"ratelimit", "forbidden", "error"}
send_dm_to_user_cooldown(r) == r = "ratelimit"
\* the loop's guard (line 313)
user_has_user_id(u) == Truthy(Get(u, "user_id", None))

\* image_enabled and random.random() < send_probability, in percent
attach_choices(cfg) ==
  LET image_settings == Get(cfg, "image_settings", <<>>)
      image_enabled == Get(image_settings, "enabled", FALSE)
      send_probability == Get(image_settings, "send_probability", 50)
  IN IF ~image_enabled \/ send_probability = 0 THEN { FALSE }
     ELSE IF send_probability >= 100 THEN { TRUE }
     ELSE BOOLEAN

\* ------------------------------------------------ dm_sender.py: configurations
TargetUserPool ==
  { [user_id |-> "u1", username |-> "n1"],
    [user_id |-> "u2", username |-> "n2", enabled |-> FALSE],
    [user_id |-> "", username |-> "n3"],
    [username |-> "n4"] }
TargetUserLists ==
  { l \in Lists(TargetUserPool, MaxRecipients) : Len(l) > 0 /\ Distinct(l) }

ImageSettings ==
  { [enabled |-> FALSE],
    [enabled |-> TRUE, folder_path |-> "images"],
    [enabled |-> TRUE, folder_path |-> "nodir", send_probability |-> 100] }

SenderBase == [twitter |-> "credentials", gemini |-> "api_key"]
WithPrompts(c, present) == IF present THEN c @@ [message_prompts |-> << "P1" >>] ELSE c
WithFallback(c, fb) == IF fb = << None >> THEN c ELSE c @@ [fallback_messages |-> fb]
FallbackOptions == { << None >>, << "F1" >>, << >> }

\* Text generation and image attachment do not interact: each is varied with
\* the other held fixed.
SenderConfig(l, im, pr, fb) ==
  WithFallback(WithPrompts(SenderBase @@ [target_users |-> l, image_settings |-> im], pr), fb)
SenderConfigs ==
  { SenderConfig(l, [enabled |-> FALSE], pr, fb) :
      l \in TargetUserLists, pr \in BOOLEAN, fb \in FallbackOptions }
  \cup
  { SenderConfig(l, im, FALSE, << "F1" >>) : l \in TargetUserLists, im \in ImageSettings }

\* a config.json without its gemini section
UnusableSenderConfigs ==
  { [twitter |-> "credentials",
     target_users |-> << [user_id |-> "u1", username |-> "n1"] >>] }

InitSender ==
  /\ program = "dm_sender"
  /\ config \in SenderConfigs \cup UnusableSenderConfigs
  /\ indexFile = NoFile
  /\ cycleStartFile = NoFile
  /\ allSent = TRUE
  /\ lastSet = << >>
  /\ InitCommon

\* -------------------------------------- dm_sender.py: main, up to the start
\* DMSender.validate_config raises ValueError exactly when a section is missing
sender_validate_raises(cfg) == ~({"twitter", "gemini", "target_users"} \subseteq DOMAIN cfg)

\* DMSender.__init__: load_config with its validation, then setup_twitter_api
sender_startup(cfg, env) ==
  IF env = "no_file" THEN "no_config"
  ELSE IF env = "bad_json" THEN "bad_config"
  ELSE IF sender_validate_raises(cfg) THEN "invalid"
  ELSE IF env = "auth_error" THEN "auth_failed"
  ELSE "ok"

\* lines 366-372: sender = DMSender(), every exception logged by main
SenderMain_Startup ==
  /\ program = "dm_sender" /\ pc = "boot"
  /\ \E env \in StartupEnvs :
       LET res == sender_startup(config, env)
       IN /\ startup' = res
          /\ pc' = IF startup_goes_on(res) THEN "start" ELSE "exited"
          /\ exit' = IF startup_goes_on(res) THEN exit ELSE Exited("startup", "boot", 0)
  /\ UNCHANGED << program, config, indexFile, pos, cycle, message_data, full_message,
                  media_id, success_count, trace, cycleStartFile, allSent, lastSet,
                  tick_due, limited, call >>

\* ------------------------------------ dm_sender.py: send_messages_to_all
target_users == config.target_users
InSenderLoop == pc = "loop" /\ pos \in 1..Len(target_users)
user_info == target_users[pos]

\* line 307: success_count = 0, at the start of every call
carried_success_count == success_count
fresh_success_count == 0

\* positions whose send in the cycle of trace met the rate limit
RateLimited ==
  { trace[j].k : j \in { i \in 1..Len(trace) : trace[i].ev = "send" /\ trace[i].res = "ratelimit" } }

\* lines 296-307, entered from start_scheduler (first run, then each due tick)
SMA_Start ==
  /\ program = "dm_sender"
  /\ \E falls_due \in BOOLEAN : cycle_may_start(pc, tick_due \/ falls_due)
  /\ cycle < MaxCycles
  /\ tick_due' = FALSE
  /\ limited' \in (IF RateLimited = {} THEN {0} ELSE RateLimited)
  /\ cycle' = cycle + 1
  /\ pos' = 1
  /\ trace' = << >>
  /\ success_count' = fresh_success_count
  /\ pc' = "loop"
  /\ UNCHANGED << program, config, indexFile, message_data, full_message, media_id,
                  cycleStartFile, allSent, lastSet, startup, exit, call >>

\* lines 310-315
SMA_SkipNoUserId ==
  /\ program = "dm_sender" /\ InSenderLoop
  /\ ~user_has_user_id(user_info)
  /\ Skip("no_user_id")

\* lines 317-318: message = self.generate_message()
SMA_Generate ==
  /\ program = "dm_sender" /\ InSenderLoop
  /\ user_has_user_id(user_info)
  /\ \E gen \in GenResults :
       /\ generate_message_texts(config, gen) # {}
       /\ \E t \in generate_message_texts(config, gen) :
            full_message' = [text |-> t, stamped |-> FALSE]
       /\ trace' = Append(trace, Ev("generate", pos,
                            IF generate_message_fails(config, gen) THEN "fallback" ELSE gen))
  /\ pc' = "image"
  /\ UNCHANGED << procVars, program, config, indexFile, pos, cycle, message_data, media_id,
                  success_count, cycleStartFile, allSent, lastSet >>

\* line 204 raising IndexError: nothing between here and main() catches it
SMA_GenerateRaises ==
  /\ program = "dm_sender" /\ InSenderLoop
  /\ user_has_user_id(user_info)
  /\ \E gen \in GenResults : generate_message_texts(config, gen) = {}
  /\ trace' = Append(trace, Ev("generate", pos, "raised"))
  /\ pc' = "crashed"
  /\ exit' = Exited("error", "generate", 0)
  /\ UNCHANGED << program, config, indexFile, pos, cycle, message_data, full_message,
                  media_id, success_count, cycleStartFile, allSent, lastSet, startup,
                  tick_due, limited, call >>

\* lines 320-329
SMA_Image ==
  /\ program = "dm_sender" /\ pc = "image"
  /\ \E attach \in attach_choices(config), gw \in GatewayResults :
       \E image_path \in get_random_image_choices(config) :
         LET tried == attach /\ image_path # NoPath
         IN /\ media_id' = IF tried THEN sender_upload_media(image_path, gw) ELSE None
            /\ trace' = trace \o
                 ( IF ~attach THEN << >>
                   ELSE IF image_path = NoPath THEN << Ev("unresolved", pos, "folder") >>
                   ELSE IF ~sender_upload_calls_gateway(image_path)
                        THEN << Ev("rejected", pos, image_path[2]) >>
                   ELSE << Ev("upload", pos, gw) >> )
  /\ pc' = "send"
  /\ UNCHANGED << procVars, program, config, indexFile, pos, cycle, message_data, full_message,
                  success_count, cycleStartFile, allSent, lastSet >>

\* lines 331-339, with send_dm_to_user (lines 257-294)
SMA_Send ==
  /\ program = "dm_sender" /\ pc = "send"
  /\ \E r \in SendResults :
       /\ trace' = IF send_dm_to_user_raises(r)
                   THEN Append(trace, SendEv(pos, r, full_message, media_id))
                   ELSE trace \o << SendEv(pos, r, full_message, media_id) >>
                        \o (IF send_dm_to_user_cooldown(r) THEN << Ev("cooldown", pos, "900s") >>
                            ELSE << >>)
                        \o << Ev("outcome", pos, IF send_dm_to_user_result(r) THEN "success"
                                                 ELSE "failed") >>
       /\ success_count' = IF send_dm_to_user_result(r) /\ ~send_dm_to_user_raises(r)
                           THEN success_count + 1
                           ELSE success_count
       /\ pc' = IF send_dm_to_user_raises(r) THEN "crashed" ELSE "sleep"
  /\ UNCHANGED << procVars, program, config, indexFile, pos, cycle, message_data, full_message,
                  media_id, cycleStartFile, allSent, lastSet >>

\* line 342
SMA_Sleep ==
  /\ program = "dm_sender" /\ pc = "sleep"
  /\ trace' = Append(trace, Ev("sleep", pos, "3s"))
  /\ pos' = pos + 1
  /\ full_message' = NoText
  /\ media_id' = None
  /\ pc' = "loop"
  /\ UNCHANGED << procVars, program, config, indexFile, cycle, message_data, success_count,
                  cycleStartFile, allSent, lastSet >>

\* lines 344-345, back in start_scheduler's poll loop (lines 358-361)
SMA_End ==
  /\ program = "dm_sender" /\ pc = "loop"
  /\ pos > Len(target_users)
  /\ pc' = "poll"
  /\ UNCHANGED << procVars, program, config, indexFile, pos, cycle, message_data, full_message,
                  media_id, success_count, trace, cycleStartFile, allSent, lastSet >>

NextSender ==
  \/ SenderMain_Startup
  \/ SMA_Start \/ SMA_SkipNoUserId \/ SMA_Generate \/ SMA_GenerateRaises
  \/ SMA_Image \/ SMA_Send \/ SMA_Sleep \/ SMA_End

\* ------------------------------- start_scheduler's poll loop, both programs
\* The periodic job falls due while a cycle is running, during one of its
\* sleeps.  dm_sender.py registers the job before the first cycle (line 350),
\* DM.py after it (line 435), and a job that run_pending() is running gets its
\* next time only when it returns: only the first cycle of dm_sender.py can be
\* overtaken by its own schedule.
job_can_fall_due(prog, cyc, p) == prog = "dm_sender" /\ cyc = 1 /\ p = "sleep"

Tick ==
  /\ program \in {"DM", "dm_sender"}
  /\ job_can_fall_due(program, cycle, pc)
  /\ cycle < MaxCycles
  /\ ~tick_due
  /\ tick_due' = TRUE
  /\ UNCHANGED << program, config, indexFile, pc, pos, cycle, message_data, full_message,
                  media_id, success_count, trace, cycleStartFile, allSent, lastSet,
                  startup, exit, limited, call >>

\* Ctrl+C: KeyboardInterrupt is raised in the one thread, wherever it is.
\* The only handler is the except clause of the poll loop's try (DM.py lines
\* 440-445, dm_sender.py lines 358-363), which encloses the cycles that
\* run_pending() starts and not the first one; no "except Exception" on the
\* way (send_dm, upload_media, main) catches it.
InScheduler == pc \in {"start", "loop", "media", "image", "send", "sleep", "poll"}
interrupt_caught(cyc, p) == p = "poll" \/ cyc > 1
\* exit status of an interpreter ended by KeyboardInterrupt
SigintStatus == 128 + 2

\* The process is gone with its memory; message_index.json stays.
Interrupt ==
  /\ program \in {"DM", "dm_sender"}
  /\ InScheduler
  /\ exit' = Exited("interrupt", pc, IF interrupt_caught(cycle, pc) THEN 0 ELSE SigintStatus)
  /\ pc' = "exited"
  /\ pos' = 0
  /\ trace' = << >>
  /\ message_data' = NoMessage
  /\ full_message' = NoText
  /\ media_id' = None
  /\ success_count' = 0
  /\ tick_due' = FALSE
  /\ UNCHANGED << program, config, indexFile, cycle, cycleStartFile, allSent, lastSet,
                  startup, limited, call >>

NextScheduler == Tick \/ Interrupt

\* ------------------------------------------------------------ the programs
Init == InitDM \/ InitSender
Next == NextDM \/ NextSender \/ NextScheduler
Spec == Init /\ [][Next]_vars

\* The interpreter goes on: every call made inside a cycle (gateway, sleep,
\* cooldown) returns, so a step of a running cycle that stays possible is
\* taken.  Nothing obliges a job to fall due or an interrupt to arrive.
CycleStep ==
  \/ SSM_SkipDisabled \/ SSM_SkipNoUserId \/ SSM_SkipNoMessages
  \/ SSM_Select \/ SSM_Media \/ SSM_Send \/ SSM_Sleep \/ SSM_End
  \/ SMA_SkipNoUserId \/ SMA_Generate \/ SMA_GenerateRaises
  \/ SMA_Image \/ SMA_Send \/ SMA_Sleep \/ SMA_End
SpecFair == Init /\ [][Next]_vars /\ WF_vars(CycleStep)

\* Time goes on as well: start_scheduler calls the first cycle itself, and the
\* poll loop wakes every 60 seconds, so the periodic job falls due and
\* run_pending() starts it, as long as the process runs.
CycleStart == SSM_Start \/ SMA_Start
SpecSched == Init /\ [][Next]_vars /\ WF_vars(CycleStart)

\* ------------------------------------- the cursor store driven directly
\* Any sequence of update_message_index(user_id, index) calls, each one a
\* read-modify-write of message_index.json with nothing kept in memory.
IndexIds == {"u1", "u2", "u3"}

InitIndex ==
  /\ program = "index"
  /\ config = << >>
  /\ indexFile \in { NoFile, File(<< >>) }
  /\ cycleStartFile = indexFile
  /\ allSent = TRUE
  /\ lastSet = [id \in IndexIds |-> Unset]
  /\ InitCommon

UpdateMessageIndex ==
  /\ program = "index"
  /\ \E user_id \in IndexIds, index \in 0..MaxIndex :
       /\ indexFile' = update_message_index(indexFile, user_id, index)
       /\ lastSet' = [lastSet EXCEPT ![user_id] = index]
  /\ UNCHANGED << procVars, program, config, pc, pos, cycle, message_data, full_message, media_id,
                  success_count, trace, cycleStartFile, allSent >>

NextIndex == UpdateMessageIndex
SpecIndex == InitIndex /\ [][NextIndex]_vars

\* ------------------------------------- the media helpers driven directly
\* get_image_path and the two upload_media called with any image reference
\* or path, under any media_settings, with the upload call succeeding or not.
ImageRefs == {None, "", "morning.jpg", "big.png", "edge.gif", "gone.jpg", "abs.webp"}
ImagePaths ==
  { path_join(d, n) : d \in {"images", "emptydir"}, n \in ImageRefs \ {None, ""} }
  \cup { standalone(n) : n \in ImageRefs \ {None, ""} }
MediaSettings ==
  { << >>,
    [images_directory |-> "images"],
    [images_directory |-> "emptydir", max_image_size_mb |-> 5],
    [images_directory |-> "images", max_image_size_mb |-> 1],
    [images_directory |-> "images", max_image_size_mb |-> 6] }
MediaConfigs == { << >> } \cup { [media_settings |-> m] : m \in MediaSettings }

InitMedia ==
  /\ program = "media"
  /\ config \in MediaConfigs
  /\ indexFile = NoFile
  /\ cycleStartFile = NoFile
  /\ allSent = TRUE
  /\ lastSet = << >>
  /\ InitCommon

MediaFrame ==
  UNCHANGED << program, config, indexFile, pc, pos, cycle, message_data, full_message,
               media_id, success_count, trace, cycleStartFile, allSent, lastSet,
               startup, exit, tick_due, limited >>

\* TwitterDMScheduler.get_image_path(image_filename)
CallGetImagePath ==
  /\ program = "media"
  /\ \E image_filename \in ImageRefs :
       call' = Call("get_image_path", << image_filename >>, "", FALSE,
                    get_image_path(config, image_filename))
  /\ MediaFrame

\* TwitterDMScheduler.upload_media(image_path)
CallUploadMedia ==
  /\ program = "media"
  /\ \E image_path \in ImagePaths, gw \in GatewayResults :
       call' = Call("upload_media", image_path, gw,
                    upload_media_calls_gateway(config, image_path),
                    << upload_media(config, image_path, gw) >>)
  /\ MediaFrame

\* DMSender.upload_media(image_path)
CallSenderUploadMedia ==
  /\ program = "media"
  /\ \E image_path \in ImagePaths, gw \in GatewayResults :
       call' = Call("sender_upload_media", image_path, gw,
                    sender_upload_calls_gateway(image_path),
                    << sender_upload_media(image_path, gw) >>)
  /\ MediaFrame

\* send_scheduled_messages lines 363-367 for one selected message
MediaMessages == { Msg("T", r) : r \in ImageRefs } \cup { [text |-> "T"] }
CallCycleMedia ==
  /\ program = "media"
  /\ \E md \in MediaMessages, gw \in GatewayResults :
       LET image_path == get_image_path(config, Get(md, "image", None))
       IN call' = Call("cycle_media", << md >>, gw, upload_attempted(config, md),
                       << IF upload_attempted(config, md)
                          THEN upload_media(config, image_path, gw) ELSE None >>)
  /\ MediaFrame

NextMedia == CallGetImagePath \/ CallUploadMedia \/ CallSenderUploadMedia \/ CallCycleMedia
SpecMedia == InitMedia /\ [][NextMedia]_vars

\* ===================================================================== claims
EventsAt(k, kinds) == { j \in 1..Len(trace) : trace[j].k = k /\ trace[j].ev \in kinds }
CycleEnded == pc = "poll"
cursor(file, k) == get_message_index(file, recipients[k].user_id)
SendFailed(k) == \E j \in EventsAt(k, {"outcome"}) : trace[j].res = "failed"
SendSucceeded(k) == \E j \in EventsAt(k, {"outcome"}) : trace[j].res = "success"

\* C1: under Rotate, a recipient whose send failed in a cycle has, after the
\* cycle, the rotation cursor it had before the cycle.
C1_FailedSendKeepsCursor ==
  (program = "DM" /\ ~randomize /\ CycleEnded) =>
    \A k \in 1..Len(recipients) :
      SendFailed(k) => cursor(indexFile, k) = cursor(cycleStartFile, k)

\* C2: under Rotate, a recipient with n candidates and cursor c whose send
\* succeeds was sent candidates[c mod n] and has cursor c+1 after the cycle;
\* from an empty rotation state with every send succeeding, cycle k sends
\* candidates[(k-1) mod n] and leaves the cursor at k.
C2_RotationAdvance ==
  (program = "DM" /\ ~randomize /\ CycleEnded) =>
    \A k \in 1..Len(recipients) :
      \A j \in EventsAt(k, {"send"}) :
        trace[j].res = "ok" =>
          LET messages == get_messages_for_recipient(config, recipients[k])
              n == Len(messages)
              c == cursor(cycleStartFile, k)
          IN /\ trace[j].text = messages[(c % n) + 1].text
             /\ cursor(indexFile, k) = c + 1
             /\ allSent => /\ trace[j].text = messages[((cycle - 1) % n) + 1].text
                           /\ cursor(indexFile, k) = cycle

C2_Witness ==
  /\ program = "DM" /\ ~randomize /\ CycleEnded /\ cycle = 2 /\ allSent
  /\ \E k \in 1..Len(recipients) :
       /\ \E j \in EventsAt(k, {"send"}) : trace[j].res = "ok" /\ trace[j].text = "G2"
       /\ cursor(indexFile, k) = 2

\* C3: under Randomize no step of any cycle changes message_index.json, and
\* no cycle reads or writes it.
C3_RandomizeKeepsCursor ==
  [][ (program = "DM" /\ randomize) =>
        /\ indexFile' = indexFile
        /\ \A j \in 1..Len(trace') : trace'[j].ev \notin {"index_read", "index_write"} ]_vars

C3_Witness ==
  /\ program = "DM" /\ randomize /\ CycleEnded /\ cycle = 2
  /\ indexFile.exists
  /\ \E k \in 1..Len(recipients) : SendSucceeded(k)
  /\ \E k \in 1..Len(recipients) : SendFailed(k)

Positions ==
  IF program = "DM" THEN 1..Len(recipients)
  ELSE IF program = "dm_sender" THEN 1..Len(target_users)
  ELSE {}
Entry(k) == IF program = "DM" THEN recipients[k] ELSE target_users[k]
Disabled(r) == "enabled" \in DOMAIN r /\ ~r.enabled
NoId(r) == "user_id" \notin DOMAIN r \/ r.user_id = ""
Processed(k) == EventsAt(k, {"skip", "outcome"}) # {}
OnlySkipped(k, reason) ==
  /\ \A j \in 1..Len(trace) : trace[j].k = k => trace[j].ev = "skip" /\ trace[j].res = reason
  /\ pos > k => EventsAt(k, {"skip"}) # {}
LaterProcessed(k) == CycleEnded => \A m \in Positions : m > k => Processed(m)

\* C4: in DM.py a recipient with enabled=false gets no upload and no send in
\* any cycle, keeps its rotation cursor, and is logged as skipped-disabled.
C4_DisabledNeverDispatch ==
  program = "DM" =>
    \A k \in 1..Len(recipients) :
      Disabled(recipients[k]) =>
        /\ OnlySkipped(k, "disabled")
        /\ ~NoId(recipients[k]) => cursor(indexFile, k) = cursor(cycleStartFile, k)

C4_Witness ==
  /\ program = "DM" /\ CycleEnded /\ Len(recipients) = 2
  /\ Disabled(recipients[1]) /\ EventsAt(1, {"skip"}) # {}
  /\ SendSucceeded(2)

\* C5: in dm_sender.py a target user with enabled=false gets no text
\* generation, no upload and no send in any cycle.
C5_SenderDisabledExcluded ==
  program = "dm_sender" =>
    \A k \in 1..Len(target_users) :
      Disabled(target_users[k]) => EventsAt(k, {"generate", "upload", "send"}) = {}

ListedFailure(k) ==
  \/ \E j \in EventsAt(k, {"send"}) : trace[j].res \in {"ratelimit", "forbidden", "error", "empty"}
  \/ \E j \in EventsAt(k, {"upload"}) : trace[j].res = "error"

MediaFailed(k) ==
  \/ EventsAt(k, {"unresolved", "rejected"}) # {}
  \/ \E j \in EventsAt(k, {"upload"}) : trace[j].res = "error"

\* C7: when the image of a recipient's message cannot be resolved or its
\* upload fails, the send is still made in the same cycle, without a media
\* handle, and a send that succeeds is recorded as a success.
C7_MediaDegradation ==
  program \in {"DM", "dm_sender"} =>
    \A k \in Positions :
      MediaFailed(k) =>
        /\ \A j \in EventsAt(k, {"send"}) :
             /\ ~trace[j].media
             /\ trace[j].res = "ok" => SendSucceeded(k)
        /\ (pos > k \/ pc = "sleep") => EventsAt(k, {"send"}) # {}
        /\ pc = "crashed" => pos > k

C7_Witness ==
  /\ program = "DM" /\ CycleEnded
  /\ \E k \in Positions :
       /\ \E j \in EventsAt(k, {"rejected"}) : trace[j].res = "big.png"
       /\ \E j \in EventsAt(k, {"send"}) : trace[j].res = "ok" /\ ~trace[j].media
       /\ SendSucceeded(k)

\* C8: after any sequence of update_message_index calls, a read of the file
\* returns the last value set for every id that was set and 0 for the others.
C8_IndexRoundTrip ==
  program = "index" =>
    \A id \in IndexIds :
      get_message_index(indexFile, id) = IF lastSet[id] = Unset THEN 0 ELSE lastSet[id]

C8_Witness ==
  /\ program = "index"
  /\ lastSet["u1"] = 2 /\ lastSet["u2"] = 1 /\ lastSet["u3"] = Unset
  /\ indexFile.doc = << <<"u2", 1>>, <<"u1", 2>> >>

\* C9: a recipient with an empty or missing id is skipped in every cycle:
\* nothing but the skip is done for it (no upload, no send, no cursor access),
\* no cursor entry exists under the empty id, and the cycle goes on.
C9_MissingIdSkipped ==
  program \in {"DM", "dm_sender"} =>
    /\ ~dict_has(json_load(indexFile.doc), "")
    /\ \A k \in Positions :
         NoId(Entry(k)) =>
           /\ OnlySkipped(k, IF program = "DM" /\ Disabled(Entry(k)) THEN "disabled"
                              ELSE "no_user_id")
           /\ LaterProcessed(k)
           /\ pc = "crashed" => pos # k

C9_Witness ==
  /\ program = "DM" /\ CycleEnded /\ Len(recipients) = 2
  /\ "user_id" \in DOMAIN recipients[1] /\ recipients[1].user_id = ""
  /\ EventsAt(1, {"skip"}) # {}
  /\ SendSucceeded(2)

\* C10: a recipient whose message source is empty is skipped in the cycle:
\* no upload, no send, cursor unchanged, and the cycle goes on.
C10_NoCandidatesSkipped ==
  program = "DM" =>
    \A k \in 1..Len(recipients) :
      ( /\ ~Disabled(recipients[k]) /\ ~NoId(recipients[k])
        /\ message_source(config, recipients[k]) = << >> ) =>
        /\ OnlySkipped(k, "no_messages")
        /\ cursor(indexFile, k) = cursor(cycleStartFile, k)
        /\ LaterProcessed(k)

C10_Witness ==
  /\ program = "DM" /\ CycleEnded /\ Len(recipients) = 2
  /\ message_source(config, recipients[1]) = << >>
  /\ \E j \in EventsAt(1, {"skip"}) : trace[j].res = "no_messages"
  /\ SendSucceeded(2)

\* C11: in dm_sender.py a send that meets the rate limit is followed at once
\* by the 900 s cooldown, before anything is done for another recipient, and
\* then recorded as failed; it is the only send to that recipient in the
\* cycle; and a recipient rate-limited in one cycle is sent to again in the
\* next cycle that completes.
C11_RateLimitCooldown ==
  program = "dm_sender" =>
    /\ \A j \in 1..Len(trace) :
         (trace[j].ev = "send" /\ trace[j].res = "ratelimit") =>
           /\ j + 2 <= Len(trace)
           /\ trace[j + 1] = Ev("cooldown", trace[j].k, "900s")
           /\ trace[j + 2] = Ev("outcome", trace[j].k, "failed")
           /\ Cardinality(EventsAt(trace[j].k, {"send"})) = 1
    /\ (limited # 0 /\ CycleEnded) => Cardinality(EventsAt(limited, {"send"})) = 1

C11_Witness ==
  /\ program = "dm_sender" /\ CycleEnded /\ cycle = 2 /\ Len(target_users) = 2
  /\ limited = 1
  /\ \E j \in EventsAt(1, {"send"}) : trace[j].res = "ok"
  /\ \E j \in EventsAt(2, {"send"}) :
       trace[j].res = "ratelimit" /\ trace[j + 1].ev = "cooldown" /\ SendFailed(2)

Throttle == IF program = "DM" THEN "2s" ELSE "3s"
IndexEvents(kind) == { j \in 1..Len(trace) : trace[j].ev = kind }

\* C12: in both programs a send that is refused (forbidden) or fails with
\* any other error is recorded as failed at once, no cooldown is taken for
\* that recipient, and the next thing done is the ordinary throttle sleep.
C12_ForbiddenNoCooldown ==
  program \in {"DM", "dm_sender"} =>
    \A j \in 1..Len(trace) :
      (trace[j].ev = "send" /\ trace[j].res \in {"forbidden", "error"}) =>
        /\ j + 1 <= Len(trace)
        /\ trace[j + 1] = Ev("outcome", trace[j].k, "failed")
        /\ EventsAt(trace[j].k, {"cooldown"}) = {}
        /\ j + 2 <= Len(trace) => trace[j + 2] = Ev("sleep", trace[j].k, Throttle)
        /\ (pos > trace[j].k \/ CycleEnded) => j + 2 <= Len(trace)

C12_Witness ==
  /\ program = "dm_sender" /\ CycleEnded /\ Len(target_users) = 2
  /\ \E j \in EventsAt(1, {"send"}) :
       /\ trace[j].res = "forbidden"
       /\ trace[j + 1].ev = "outcome" /\ trace[j + 2].ev = "sleep"
  /\ \E j \in EventsAt(2, {"send"}) : trace[j].res = "error"
  /\ SendFailed(1) /\ SendFailed(2)

\* C13: in a cycle of either program every send attempt, whatever its
\* result, is followed by one throttle sleep before anything is done for the
\* next recipient, so a sleep lies between any two sends; a recipient that is
\* skipped gets no sleep.
C13_ThrottleAfterEverySend ==
  program \in {"DM", "dm_sender"} =>
    LET sends == IndexEvents("send")
        sleeps == IndexEvents("sleep")
    IN /\ \A i, j \in sends :
            i < j => \E m \in sleeps :
                       i < m /\ m < j /\ trace[m] = Ev("sleep", trace[i].k, Throttle)
       /\ \A i \in sends :
            (pos > trace[i].k \/ CycleEnded) =>
              Cardinality({ m \in sleeps : trace[m].k = trace[i].k }) = 1
       /\ \A m \in sleeps :
            /\ m > 1 /\ trace[m - 1].ev = "outcome" /\ trace[m - 1].k = trace[m].k
            /\ \E i \in sends : i < m /\ trace[i].k = trace[m].k
       /\ \A j \in IndexEvents("skip") : \A m \in sleeps : trace[m].k # trace[j].k

C13_Witness ==
  /\ program = "DM" /\ CycleEnded /\ Len(recipients) = 2
  /\ NoId(recipients[1]) /\ EventsAt(1, {"skip"}) # {} /\ EventsAt(1, {"sleep"}) = {}
  /\ SendFailed(2)
  /\ trace[Len(trace)] = Ev("sleep", 2, "2s")

\* C14: a dispatch cycle starts only when none is running, that is before
\* the first one or from the poll loop after the previous one has ended; a
\* job that falls due while a cycle runs starts nothing and stays due until
\* that cycle has ended.
C14_OneCycleAtATime ==
  [][ /\ cycle' # cycle =>
           (pc \in {"start", "poll"} /\ cycle' = cycle + 1 /\ pc' = "loop" /\ pos' = 1)
      /\ (tick_due /\ pc \notin {"start", "poll"} /\ pc' \notin {"exited", "crashed"}) =>
           (tick_due' /\ cycle' = cycle) ]_vars

C14_Witness ==
  /\ program = "dm_sender" /\ cycle = 1 /\ Len(target_users) = 2
  /\ tick_due /\ pc = "send" /\ pos = 2
  /\ SendSucceeded(1)

\* C15: a cycle of DM.py reads message_index.json at most once, before
\* anything is done for its first recipient, and writes it at most once,
\* after its last recipient has been processed.
C15_RotationStateBatched ==
  program = "DM" =>
    /\ Cardinality(IndexEvents("index_read")) <= 1
    /\ Cardinality(IndexEvents("index_write")) <= 1
    /\ \A j \in IndexEvents("index_read") : j = 1
    /\ IndexEvents("index_write") # {} => pos > Len(recipients)

FallbackPool ==
  IF "fallback_messages" \in DOMAIN config
  THEN { config.fallback_messages[j] : j \in 1..Len(config.fallback_messages) }
  ELSE { "BUILTIN" }

\* C16: in dm_sender.py generate_message never raises: when generation fails
\* it returns a text of the configured fallback pool (the built-in text when
\* no pool is configured), the send for that recipient is made with that
\* text, and the cycle is not aborted, whatever the fallback pool is.
C16_FallbackNeverRaises ==
  program = "dm_sender" =>
    /\ pc # "crashed"
    /\ \A j \in 1..Len(trace) :
         trace[j].ev = "generate" =>
           /\ trace[j].res # "raised"
           /\ trace[j].res = "fallback" =>
                \A i \in EventsAt(trace[j].k, {"send"}) : trace[i].text \in FallbackPool
           /\ pos > trace[j].k => EventsAt(trace[j].k, {"send"}) # {}

\* C17: an interrupt ends the process only at a boundary: before the first
\* cycle, between two recipients of a cycle, or in the poll loop; it never
\* ends it while a send (or the upload or sleep around it) is under way.
C17_InterruptOnlyAtBoundary ==
  exit.by = "interrupt" => exit.at \in {"start", "loop", "poll"}

\* C18: a process ended by an interrupt delivered after the scheduler has
\* started (first cycle, later cycle, poll loop) has exit status 0.
C18_InterruptStopsCleanly ==
  exit.by = "interrupt" => exit.code = 0

\* C19: a failed startup (configuration or authentication) ends the process
\* before any cycle, upload or send; and once a cycle has started no error
\* inside a cycle ends the process.
C19_OnlyStartupErrorsFatal ==
  program \in {"DM", "dm_sender"} =>
    /\ startup \notin {"pending", "ok"} =>
         (pc = "exited" /\ exit.by = "startup" /\ cycle = 0 /\ trace = << >>)
    /\ cycle > 0 => (startup = "ok" /\ exit.by # "error" /\ pc # "crashed")

CandidateText(m) == IF isinstance_str(m) THEN m.str ELSE m.text
HasCustom(r) == "custom_messages" \in DOMAIN r /\ r.custom_messages # << >>
Category(r) == IF "message_category" \in DOMAIN r THEN r.message_category ELSE "custom"
SameTexts(res, source) ==
  /\ Len(res) = Len(source)
  /\ \A i \in 1..Len(source) : res[i].text = CandidateText(source[i])

\* C20: for every configured recipient get_messages_for_recipient returns
\* the candidates of custom_messages when that list is present and not empty,
\* whatever the category; otherwise those of the category's template list;
\* and the one-element default list when the template mapping has no such
\* category.  Every text sent to the recipient is one of these candidates.
C20_MessageSourcePriority ==
  program = "DM" =>
    \A k \in 1..Len(recipients) :
      LET r == recipients[k]
          res == get_messages_for_recipient(config, r)
          templates == config.message_templates
      IN /\ HasCustom(r) => SameTexts(res, r.custom_messages)
         /\ (~HasCustom(r) /\ Category(r) \in DOMAIN templates) =>
              SameTexts(res, templates[Category(r)])
         /\ (~HasCustom(r) /\ Category(r) \notin DOMAIN templates) =>
              (Len(res) = 1 /\ res[1] = Msg("DEFAULT", None))
         /\ \A j \in EventsAt(k, {"send"}) :
              trace[j].text \in { res[i].text : i \in 1..Len(res) }

C20_Witness ==
  /\ program = "DM" /\ CycleEnded /\ Len(recipients) = 2
  /\ HasCustom(recipients[1]) /\ Category(recipients[1]) = "reminder"
  /\ \E j \in EventsAt(1, {"send"}) : trace[j].text = "C2"
  /\ ~HasCustom(recipients[2]) /\ Category(recipients[2]) \notin DOMAIN config.message_templates
  /\ \E j \in EventsAt(2, {"send"}) : trace[j].text = "DEFAULT"

\* C21: in every cycle of either program the recipients are handled one at a
\* time in the order of the configured list: what is done never goes back to
\* an earlier position, everything before the current position is finished,
\* and what is done at position k is done for the k-th configured entry.
C21_ConfigurationOrder ==
  program \in {"DM", "dm_sender"} =>
    /\ \A j \in 2..Len(trace) : trace[j - 1].k <= trace[j].k
    /\ \A j \in 1..Len(trace) :
         /\ trace[j].k \in Positions /\ trace[j].k <= pos
         /\ (trace[j].ev = "skip" /\ trace[j].res = "no_user_id") => NoId(Entry(trace[j].k))
         /\ trace[j].ev # "skip" => ~NoId(Entry(trace[j].k))
    /\ \A k \in Positions : k < pos => Processed(k)
    /\ pc \in {"media", "image", "send", "sleep"} => pos \in Positions

C21_Witness ==
  /\ program = "DM" /\ CycleEnded /\ cycle = 2 /\ Len(recipients) = 2
  /\ SendSucceeded(1) /\ SendFailed(2)
  /\ trace[1].k = 1 /\ trace[Len(trace)].k = 2

CursorIds == {"", "u1", "u2", "u4", "u7", "u8", "u9"}
stored(file, id) == get_message_index(file, id)
has_entry(file, id) == file.exists /\ dict_has(json_load(file.doc), id)

\* C22: in DM.py every stored cursor is a natural number, no step lowers a
\* cursor or deletes an entry, and a cursor is never more than 1 above its
\* value at the start of the running cycle (the stored value keeps counting,
\* it is not reduced modulo the number of candidates).
C22_CursorMonotone ==
  [][ program = "DM" =>
        \A id \in CursorIds :
          /\ stored(indexFile, id) \in Nat /\ stored(indexFile', id) \in Nat
          /\ stored(indexFile', id) >= stored(indexFile, id)
          /\ stored(indexFile', id) <= stored(cycleStartFile', id) + 1
          /\ has_entry(indexFile, id) => has_entry(indexFile', id) ]_vars

C22_Witness ==
  /\ program = "DM" /\ CycleEnded /\ cycle = 2
  /\ \E k \in 1..Len(recipients) :
       /\ Get(recipients[k], "user_id", None) = "u1"
       /\ stored(indexFile, "u1") = 3
       /\ Len(get_messages_for_recipient(config, recipients[k])) = 2
  /\ stored(indexFile, "u9") = 4

\* C23: in DM.py a step that changes message_index.json is the selection for
\* the recipient at the current position, and it leaves the cursor of every
\* other id as it was, stored or not.
C23_CursorFrame ==
  [][ (program = "DM" /\ indexFile' # indexFile) =>
        /\ pc = "loop" /\ pos \in 1..Len(recipients)
        /\ \A id \in CursorIds \ { Get(recipients[pos], "user_id", None) } :
             /\ stored(indexFile', id) = stored(indexFile, id)
             /\ has_entry(indexFile', id) = has_entry(indexFile, id) ]_vars

C23_Witness ==
  /\ program = "DM" /\ pc = "media" /\ pos = 1 /\ Len(recipients) = 2
  /\ Get(recipients[1], "user_id", None) = "u1"
  /\ Get(recipients[2], "user_id", None) = "u2"
  /\ stored(cycleStartFile, "u1") = 1 /\ stored(indexFile, "u1") = 2
  /\ stored(indexFile, "u9") = 4 /\ ~has_entry(indexFile, "u2")

Terminal(k) == EventsAt(k, {"skip", "outcome"})

\* C24: in every cycle of either program each configured recipient gets
\* exactly one terminal outcome (skipped, sent or failed): never more than
\* one, and one once the cycle is over or has been given up; at most one send
\* is made per recipient, and none for a skipped recipient.
C24_OneOutcomePerRecipient ==
  program \in {"DM", "dm_sender"} =>
    \A k \in Positions :
      /\ Cardinality(EventsAt(k, {"send"})) <= 1
      /\ Cardinality(Terminal(k)) <= 1
      /\ EventsAt(k, {"skip"}) # {} => EventsAt(k, {"send"}) = {}
      /\ (cycle > 0 /\ pc \in {"poll", "crashed"}) => Cardinality(Terminal(k)) = 1

\* C25: in dm_sender.py success_count is at every moment of a cycle the
\* number of recipients of that cycle whose send returned True, so it is that
\* number at the summary line, counts no skipped or failed recipient, starts
\* every cycle at 0 and never exceeds the number of target users.
C25_SuccessCount ==
  program = "dm_sender" =>
    /\ success_count = Cardinality({ k \in Positions : SendSucceeded(k) })
    /\ success_count <= Len(target_users)
    /\ (pc = "loop" /\ pos = 1) => success_count = 0

C25_Witness ==
  /\ program = "dm_sender" /\ CycleEnded /\ cycle = 2 /\ Len(target_users) = 2
  /\ SendSucceeded(1) /\ SendFailed(2)
  /\ success_count = 1

\* ---------------------------------------------------------------- C26
ImagesDirectory == Get(Get(config, "media_settings", << >>), "images_directory", "images")
Blank(ref) == ref \in {None, ""}

\* C26: get_image_path returns the reference joined with the images directory
\* when that file exists, otherwise the reference itself as a standalone path
\* when that exists, otherwise None; a None or empty reference gives None, and
\* the cycle then makes no upload call and sends without media.
C26_ResolutionOrder ==
  /\ call.fn = "get_image_path" =>
       LET ref == call.arg[1]
           joined == << ImagesDirectory, ref >>
           alone == << ref >>
       IN /\ Blank(ref) => call.result = NoPath
          /\ (~Blank(ref) /\ os_path_exists(joined)) => call.result = joined
          /\ (~Blank(ref) /\ ~os_path_exists(joined) /\ os_path_exists(alone))
               => call.result = alone
          /\ (~Blank(ref) /\ ~os_path_exists(joined) /\ ~os_path_exists(alone))
               => call.result = NoPath
  /\ call.fn = "cycle_media" =>
       ( Blank(Get(call.arg[1], "image", None))
           => ~call.reached /\ call.result = << None >> )

C26_Witness ==
  /\ call.fn = "get_image_path"
  /\ call.arg = << "morning.jpg" >>
  /\ os_path_exists(<< "morning.jpg" >>)
  /\ call.result = << "images", "morning.jpg" >>

\* ---------------------------------------------------------------- C27
\* the size ceiling in bytes that applies to a direct upload call
Ceiling ==
  IF call.fn = "upload_media"
  THEN Get(Get(config, "media_settings", << >>), "max_image_size_mb", 5) * BytesPerMB
  ELSE 5 * BytesPerMB

\* C27: upload_media (of both programs) always returns a value: None when the
\* file is missing or strictly larger than the ceiling, and then the gateway
\* upload call is not made; for an existing file of at most the ceiling the
\* gateway is called and the result is its media handle, or None when it errors.
C27_UploadNeverRaises ==
  call.fn \in {"upload_media", "sender_upload_media"} =>
    LET image_path == call.arg
        present == os_path_exists(image_path)
        oversize == present /\ os_path_getsize(image_path) > Ceiling
    IN /\ call.result \in { << None >>, << MediaHandle >> }
       /\ (~present \/ oversize) => (call.result = << None >> /\ ~call.reached)
       /\ (present /\ ~oversize) =>
            /\ call.reached
            /\ call.gw = "ok" => call.result = << MediaHandle >>
            /\ call.gw = "error" => call.result = << None >>

C27_Witness ==
  /\ call.fn = "upload_media"
  /\ call.arg = << "images", "edge.gif" >>
  /\ os_path_getsize(call.arg) = Ceiling
  /\ call.gw = "ok"
  /\ call.reached
  /\ call.result = << MediaHandle >>

\* ---------------------------------------------------------------- C28
\* the configured source list of a recipient, as written in config.json
ConfiguredSource(r) ==
  IF HasCustom(r) THEN r.custom_messages
  ELSE IF Category(r) \in DOMAIN config.message_templates
       THEN config.message_templates[Category(r)]
       ELSE << Str("DEFAULT") >>
Normalized(m) == IF isinstance_str(m) THEN [text |-> m.str, image |-> None] ELSE m

\* C28: get_messages_for_recipient gives a list of the same length and order
\* as the source list, each plain string s replaced by {text: s, image: None}
\* and each structured candidate unchanged; under rotation the message
\* selected with stored index i is the normalized (i mod length)-th candidate
\* of the configured list.
C28_Normalization ==
  program = "DM" =>
    \A k \in 1..Len(recipients) :
      LET r == recipients[k]
          source == ConfiguredSource(r)
          res == get_messages_for_recipient(config, r)
      IN /\ Len(res) = Len(source)
         /\ \A i \in 1..Len(source) : res[i] = Normalized(source[i])
         /\ (pos = k /\ pc \in {"media", "send"} /\ ~randomize) =>
              LET i == stored(indexFile, r.user_id) - 1
              IN message_data = Normalized(source[(i % Len(source)) + 1])

C28_Witness ==
  /\ program = "DM" /\ pc = "send" /\ ~randomize
  /\ pos \in 1..Len(recipients)
  /\ HasCustom(recipients[pos])
  /\ Len(recipients[pos].custom_messages) = 3
  /\ isinstance_str(recipients[pos].custom_messages[2])
  /\ stored(indexFile, recipients[pos].user_id) = 2
  /\ message_data = [text |-> "C2", image |-> None]

\* ---------------------------------------------------------------- C29
TimestampOption ==
  IF "schedule_settings" \in DOMAIN config /\ "enable_timestamp" \in DOMAIN config.schedule_settings
  THEN config.schedule_settings.enable_timestamp
  ELSE TRUE
NewEvents == { j \in 1..Len(trace') : j > Len(trace) }

\* C29: no step of DM.py changes the configuration (recipients, candidate
\* lists, templates); at every send the selected candidate is still one of
\* the configured candidates, the text sent is that candidate's text, and
\* with enable_timestamp off nothing is added to it.
C29_ConfigReadOnly ==
  [][ program = "DM" =>
        /\ config' = config
        /\ \A j \in NewEvents :
             trace'[j].ev = "send" =>
               LET source == ConfiguredSource(recipients[trace'[j].k])
               IN /\ \E i \in 1..Len(source) : message_data = Normalized(source[i])
                  /\ trace'[j].text = Get(message_data, "text", "")
                  /\ ~TimestampOption => ~trace'[j].stamped ]_vars

C29_Witness ==
  /\ program = "DM" /\ CycleEnded /\ cycle = 2
  /\ ~TimestampOption
  /\ \E j \in IndexEvents("send") : trace[j].text = "C2" /\ ~trace[j].stamped

\* ---------------------------------------------------------------- C30
InCycle == pc \in {"loop", "media", "image", "send", "sleep"}
Interrupted == exit.by = "interrupt"

\* C30: in either program a cycle that has started reaches its end-of-cycle
\* state (back in the poll loop, every recipient passed), unless the user
\* interrupts the process, whatever the outcomes for the recipients are.
C30_CycleTerminates ==
  InCycle ~> ((CycleEnded /\ \A k \in Positions : k < pos) \/ Interrupted)

\* ---------------------------------------------------------------- C31
\* C31: in either program the scheduler, once started, runs the first cycle
\* itself and at once, before the poll loop; every later cycle is started from
\* the poll loop; and after each finished cycle a further cycle eventually
\* starts unless the process is interrupted (while fewer than MaxCycles
\* cycles have run).
C31_SchedulerCycles ==
  /\ [][ /\ (pc = "start" /\ pc' # "start") =>
              ((cycle = 0 /\ cycle' = 1 /\ pc' = "loop") \/ pc' = "exited")
         /\ (pc' = "poll" /\ pc # "poll") => cycle' >= 1
         /\ (pc \in {"start", "poll"} /\ pc' = "loop") => cycle' = cycle + 1
         /\ cycle' # cycle =>
              /\ cycle' = cycle + 1
              /\ cycle = 0 => pc = "start"
              /\ cycle >= 1 => pc = "poll" ]_vars
  /\ (pc = "start" \/ (CycleEnded /\ cycle < MaxCycles)) ~> (pc = "loop" \/ Interrupted)

C31_Witness ==
  /\ program = "dm_sender"
  /\ cycle = 2 /\ pc = "loop" /\ pos = 1 /\ trace = << >>
  /\ exit = Running
  /\ ~tick_due

====
